---- MODULE Spec2Model ----
(***************************************************************************)
(* Model of the contact-book assistant (Task_01_hw_07.py, Task_02_hw_07.py):*)
(* field validators, Record, AddressBook, the command handlers and the     *)
(* upcoming-birthdays scan.                                                *)
(*                                                                         *)
(* A text is a sequence of one-character strings.  A date is a record      *)
(* [y, m, d]; a datetime adds t, the time of day in seconds.               *)
(***************************************************************************)
EXTENDS Integers, Sequences, FiniteSets, TLC

VARIABLES book, last

vars == <<book, last>>

(***************************************************************************)
(* Bounds of the model and program constants.                              *)
(***************************************************************************)
NumPhones == 2          \* how many distinct well-formed phone texts are tried
NumYears == 2           \* how many reference years the scan is run in
FirstYear == 2023       \* first reference year (2024 is a leap year)

PhoneLen == 10          \* \d{10} and len(phone_number) != 10
MaxPhones == 3          \* len(self.phones) >= 3
MaxRun == 11             \* longest run of one character in a validator text
WindowDays == 7         \* timedelta(days=7)

\* Python's None where a record or a birthday is expected
None == [none |-> TRUE]

\* Python's None where a phone text is expected (delete's phone=None)
NoPhone == <<"None">>

(***************************************************************************)
(* Texts.                                                                  *)
(***************************************************************************)
AsciiDigits == {"0", "1", "2", "3", "4", "5", "6", "7", "8", "9"}

\* "U+0663" stands for the single character ARABIC-INDIC DIGIT THREE.
UnicodeDigits == {"U+0663"}

DigitSeq == <<"0", "1", "2", "3", "4", "5", "6", "7", "8", "9">>

\* The first n values of f, as a sequence
RECURSIVE Tup(_, _)
Tup(f, n) == IF n = 0 THEN <<>> ELSE Append(Tup(f, n - 1), f[n])

\* n copies of the character c
Rep(c, n) == Tup([k \in 1..n |-> c], n)

\* ValidPhone(1) is "1234567890", ValidPhone(2) is "2468024680", ...
ValidPhone(i) == Tup([k \in 1..PhoneLen |-> DigitSeq[((i * k) % 10) + 1]], PhoneLen)

ValidPhones == {ValidPhone(i) : i \in 1..NumPhones}

\* Texts add_phone must refuse: too short, and ten digits then a newline
OddPhones == { Rep("1", PhoneLen - 1), ValidPhone(1) \o <<"\n">> }

\* Phone arguments of the record and book operations
PhoneTexts == ValidPhones \cup OddPhones

\* Words of a command line (str.split() leaves no whitespace in a word)
Words == {p \in PhoneTexts : p # <<>> /\ \A i \in 1..Len(p) : p[i] # "\n"}

\* Texts given to the validator: up to MaxRun copies of a digit, an
\* Arabic-Indic digit or a letter, then one of a few endings
Endings == { <<>>, <<"\n">>, <<"a">>, <<"7">>, <<"\n", "\n">>, <<"7", "\n">> }

ValidatorTexts ==
    { Rep(c, n) \o e : c \in {"1", "a", "U+0663"}, n \in 0..MaxRun, e \in Endings }

Names == {"Ann", "Bob"}

(***************************************************************************)
(* Phone.validate_phone: bool(re.match(r"^\d{10}$", value)).               *)
(***************************************************************************)
\* \d on a str pattern matches every Unicode decimal digit.
IsDecimal(c) == c \in AsciiDigits \cup UnicodeDigits

\* Position after n characters matching \d from pos on, 0 when one fails.
RECURSIVE MatchDigits(_, _, _)
MatchDigits(s, pos, n) ==
    IF n = 0 THEN pos
    ELSE IF pos > Len(s) THEN 0
    ELSE IF ~IsDecimal(s[pos]) THEN 0
    ELSE MatchDigits(s, pos + 1, n - 1)

\* $ (no MULTILINE): the end of the string, or just before a final newline.
AtDollar(s, pos) ==
    \/ pos = Len(s) + 1
    \/ pos = Len(s) /\ s[pos] = "\n"

validate_phone(value) ==
    LET p == MatchDigits(value, 1, PhoneLen)
    IN  p # 0 /\ AtDollar(value, p)

\* The result of a call inside the program: a value, or a ValueError
Ok(v) == [ok |-> TRUE, v |-> v]
Err(msg) == [ok |-> FALSE, v |-> msg]

\* The outcome of a modelled call, as its caller sees it: what it returns or
\* the ValueError it raises.  msg is the text (an f-string is kept with its
\* placeholders); names and dates are the lists the scans return.
Ret(msg) == [kind |-> "return", msg |-> msg, names |-> <<>>, dates |-> <<>>]
Exc(msg) == [kind |-> "raise", msg |-> msg, names |-> <<>>, dates |-> <<>>]
RetList(names, dates) ==
    [kind |-> "return", msg |-> "list", names |-> names, dates |-> dates]

\* Phone.__init__
Phone(value) ==
    IF ~validate_phone(value)
    THEN Err("Phone number must be 10 digits!")
    ELSE Ok(value)

\* Name.__init__
Name(value) ==
    IF value = ""
    THEN Err("Name is required!")
    ELSE Ok(value)

(***************************************************************************)
(* Dates: datetime.strptime(value, "%d.%m.%Y") and datetime.replace.       *)
(***************************************************************************)
IsLeap(y) == (y % 4 = 0) /\ ((y % 100 # 0) \/ (y % 400 = 0))

DaysInMonth(y, m) ==
    IF m = 2 THEN (IF IsLeap(y) THEN 29 ELSE 28)
    ELSE IF m \in {4, 6, 9, 11} THEN 30
    ELSE 31

DaysBeforeYear(y) ==
    (y - 1) * 365 + ((y - 1) \div 4) - ((y - 1) \div 100) + ((y - 1) \div 400)

RECURSIVE DaysBeforeMonth(_, _)
DaysBeforeMonth(y, m) ==
    IF m = 1 THEN 0 ELSE DaysBeforeMonth(y, m - 1) + DaysInMonth(y, m - 1)

\* date.toordinal()
Ordinal(dt) == DaysBeforeYear(dt.y) + DaysBeforeMonth(dt.y, dt.m) + dt.d

IsDate(y, m, d) ==
    /\ y \in 1..9999
    /\ m \in 1..12
    /\ d \in 1..DaysInMonth(y, m)

\* A birthday text is [shape, d, m, y]: shape "d.m.Y" is digits "." digits "."
\* four digits, with the numbers the digit groups spell; any other shape is
\* a text the format's pattern rejects.
Strptime(text) ==
    IF text.shape # "d.m.Y" THEN Err("does not match format")
    ELSE IF ~(text.d \in 1..31 /\ text.m \in 1..12) THEN Err("does not match format")
    ELSE IF ~IsDate(text.y, text.m, text.d) THEN Err("out of range")
    ELSE Ok([y |-> text.y, m |-> text.m, d |-> text.d])

\* Birthday.__init__: any ValueError becomes "Invalid date format. Use DD.MM.YYYY"
Birthday(value) ==
    LET r == Strptime(value)
    IN  IF ~r.ok THEN Err("Invalid date format. Use DD.MM.YYYY") ELSE r

\* datetime.replace(year=y): ValueError when the day does not exist in year y
ReplaceYear(dt, y) ==
    IF ~IsDate(y, dt.m, dt.d)
    THEN Err("day is out of range for month")
    ELSE Ok([y |-> y, m |-> dt.m, d |-> dt.d])

BirthdayText(d, m, y) == [shape |-> "d.m.Y", d |-> d, m |-> m, y |-> y]

BirthdayTexts ==
    { BirthdayText(10, 6, 1990),
      BirthdayText(29, 2, 2000),
      BirthdayText(29, 2, 2001),
      [shape |-> "Y-m-d", d |-> 10, m |-> 6, y |-> 1990] }

\* Birthdays of the books the scan is run on
ScanBirthdayTexts == BirthdayTexts \cup { BirthdayText(3, 1, 1995) }

(***************************************************************************)
(* Record.                                                                 *)
(***************************************************************************)
\* Record.__init__ (the name already validated)
NewRecord(name) == [name |-> name, phones |-> <<>>, birthday |-> None]

\* Record.find_phone: index of the first phone equal to phone_number, 0 for None
Record_find_phone(rec, phone_number) ==
    IF \E i \in 1..Len(rec.phones) : rec.phones[i] = phone_number
    THEN CHOOSE i \in 1..Len(rec.phones) :
            /\ rec.phones[i] = phone_number
            /\ \A j \in 1..(i - 1) : rec.phones[j] # phone_number
    ELSE 0

\* add_phone without the duplicate, limit and empty-list guards
Record_add_phone_unguarded(rec, phone_number) ==
    IF ~validate_phone(phone_number)
    THEN [rec |-> rec, out |-> Exc("Phone number must be 10 digits!")]
    ELSE [rec |-> [rec EXCEPT !.phones = Append(@, phone_number)],
          out |-> Ret("None")]

\* Record.add_phone
Record_add_phone(rec, phone_number) ==
    IF Record_find_phone(rec, phone_number) # 0
    THEN [rec |-> rec, out |-> Exc("Phone number already exists.")]
    ELSE IF ~validate_phone(phone_number)
    THEN [rec |-> rec, out |-> Exc("Phone number must be 10 digits!")]
    ELSE IF phone_number = <<>>
    THEN [rec |-> rec, out |-> Exc("Phone number is required!")]
    ELSE IF Len(rec.phones) >= MaxPhones
    THEN [rec |-> rec, out |-> Exc("Cannot add more than 3 phone numbers.")]
    ELSE IF Len(phone_number) # PhoneLen
    THEN [rec |-> rec, out |-> Exc("Phone number must be 10 digits!")]
    ELSE IF rec.phones = <<>>
    THEN LET p == Phone(phone_number)
         IN  IF ~p.ok
             THEN [rec |-> rec, out |-> Exc(p.v)]
             ELSE [rec |-> [rec EXCEPT !.phones = Append(@, p.v)],
                   out |-> Ret("None")]
    ELSE [rec |-> rec, out |-> Ret("None")]

\* list.remove / del: s without its i-th entry
RemoveAt(s, i) == SubSeq(s, 1, i - 1) \o SubSeq(s, i + 1, Len(s))

\* Record.remove_phone
Record_remove_phone(rec, phone_number) ==
    LET i == Record_find_phone(rec, phone_number)
    IN  IF i # 0
        THEN [rec |-> [rec EXCEPT !.phones = RemoveAt(@, i)],
              out |-> Ret("Phone {phone_number} removed.")]
        ELSE [rec |-> rec, out |-> Ret("Phone number not found.")]

\* Record.edit_phone
Record_edit_phone(rec, old_phone_number, new_phone_number) ==
    LET removed == Record_remove_phone(rec, old_phone_number)
    IN  Record_add_phone(removed.rec, new_phone_number)

\* add_birthday without the "already exists" guard
Record_add_birthday_unguarded(rec, birthday) ==
    LET b == Birthday(birthday)
    IN  IF ~b.ok
        THEN [rec |-> rec, out |-> Exc(b.v)]
        ELSE [rec |-> [rec EXCEPT !.birthday = b.v], out |-> Ret("None")]

\* Record.add_birthday
Record_add_birthday(rec, birthday) ==
    IF rec.birthday # None
    THEN [rec |-> rec, out |-> Exc("Birthday already exists.")]
    ELSE LET b == Birthday(birthday)
         IN  IF ~b.ok
             THEN [rec |-> rec, out |-> Exc(b.v)]
             ELSE [rec |-> [rec EXCEPT !.birthday = b.v], out |-> Ret("None")]

(***************************************************************************)
(* AddressBook: a dict in insertion order, modelled as the sequence of its *)
(* records, one per key.                                                   *)
(***************************************************************************)
Keys(b) == {b[i].name : i \in 1..Len(b)}

IndexOf(b, name) ==
    IF name \in Keys(b) THEN CHOOSE i \in 1..Len(b) : b[i].name = name ELSE 0

\* AddressBook.find: the record, or None
AddressBook_find(b, name) ==
    IF name \in Keys(b) THEN b[IndexOf(b, name)] ELSE None

\* AddressBook.add_record: self.data[record.name.value] = record
AddressBook_add_record(b, record) ==
    IF record.name \in Keys(b)
    THEN [b EXCEPT ![IndexOf(b, record.name)] = record]
    ELSE Append(b, record)

\* The record object found under name, mutated in place to rec
Store(b, name, rec) == [b EXCEPT ![IndexOf(b, name)] = rec]

\* if phone: -- None and the empty text are falsy
Truthy(phone) == phone # NoPhone /\ phone # <<>>

\* delete whose whole-entry branch empties the dict (self.data.clear())
AddressBook_delete_clear(b, name, phone) ==
    IF AddressBook_find(b, name) = None
    THEN [book |-> b, out |-> Ret("Contact not found.")]
    ELSE IF Truthy(phone)
    THEN [book |-> Store(b, name,
                         Record_remove_phone(AddressBook_find(b, name), phone).rec),
          out |-> Ret("Phone {phone} removed from {name}.")]
    ELSE [book |-> <<>>, out |-> Ret("Contact {name} deleted.")]

\* AddressBook.delete
AddressBook_delete(b, name, phone) ==
    IF AddressBook_find(b, name) = None
    THEN [book |-> b, out |-> Ret("Contact not found.")]
    ELSE IF Truthy(phone)
    THEN [book |-> Store(b, name,
                         Record_remove_phone(AddressBook_find(b, name), phone).rec),
          out |-> Ret("Phone {phone} removed from {name}.")]
    ELSE [book |-> RemoveAt(b, IndexOf(b, name)),
          out |-> Ret("Contact {name} deleted.")]

(***************************************************************************)
(* The upcoming-birthdays scan.  today is datetime.now(): a date and t,    *)
(* the seconds into the day.                                               *)
(***************************************************************************)
\* A datetime as (day number, seconds into the day), which is how two
\* datetimes compare; a parsed birthday is at 00:00:00 of its date.
Stamp(dt) == [ord |-> Ordinal(dt), t |-> dt.t]
Midnight(date) == [ord |-> Ordinal(date), t |-> 0]
PlusDays(s, n) == [s EXCEPT !.ord = @ + n]
DtLess(a, b) == a.ord < b.ord \/ (a.ord = b.ord /\ a.t < b.t)
DtLeq(a, b) == ~DtLess(b, a)

\* today <= next_birthday <= today + timedelta(days=7)
InWindow(today, nb) ==
    /\ DtLeq(Stamp(today), Midnight(nb))
    /\ DtLeq(Midnight(nb), PlusDays(Stamp(today), WindowDays))

\* next_birthday of one record: the date, or the ValueError of replace()
NextBirthday(today, birthday) ==
    LET first == ReplaceYear(birthday, today.y)
    IN  IF ~first.ok THEN first
        ELSE IF DtLess(Midnight(first.v), Stamp(today))
        THEN ReplaceYear(first.v, today.y + 1)
        ELSE first

\* The loop over book.values() from index i on; names and dates are the
\* entries appended so far
RECURSIVE ScanFrom(_, _, _, _, _)
ScanFrom(b, today, i, names, dates) ==
    IF i > Len(b) THEN Ok([names |-> names, dates |-> dates])
    ELSE IF b[i].birthday = None THEN ScanFrom(b, today, i + 1, names, dates)
    ELSE LET nb == NextBirthday(today, b[i].birthday)
         IN  IF ~nb.ok THEN nb
             ELSE IF InWindow(today, nb.v)
             THEN ScanFrom(b, today, i + 1,
                           Append(names, b[i].name), Append(dates, nb.v))
             ELSE ScanFrom(b, today, i + 1, names, dates)

\* AddressBook.get_upcoming_birthdays (Task_01): the list of names; a
\* ValueError leaves the method
AddressBook_get_upcoming_birthdays(b, today) ==
    LET r == ScanFrom(b, today, 1, <<>>, <<>>)
    IN  IF ~r.ok THEN Exc(r.v) ELSE RetList(r.v.names, <<>>)

\* input_error: a ValueError becomes the fixed message
input_error(out) ==
    IF out.kind = "raise" THEN Ret("Give me name and phone please.") ELSE out

\* birthdays (Task_02), under @input_error: the "name: dd.mm.YYYY" lines,
\* kept as the names and the dates
birthdays(b, today) ==
    LET r == ScanFrom(b, today, 1, <<>>, <<>>)
    IN  input_error(IF ~r.ok THEN Exc(r.v)
                    ELSE IF r.v.names # <<>> THEN RetList(r.v.names, r.v.dates)
                    ELSE Ret("No upcoming birthdays this week."))

(***************************************************************************)
(* Command handlers.  args is the list of words after the command; words  *)
(* come from str.split(), so they are non-empty and hold no whitespace.    *)
(***************************************************************************)
\* add_contact (Task_01), under @input_error
add_contact(b, args) ==
    IF Len(args) # 2
    THEN [book |-> b, out |-> Ret("Provide a name and a phone number.")]
    ELSE LET name == args[1]
             phone == args[2]
             found == AddressBook_find(b, name)
             record == IF found # None THEN found ELSE NewRecord(name)
             added == Record_add_phone(record, phone)
         IN  IF added.out.kind = "raise"
             THEN [book |-> b, out |-> input_error(added.out)]
             ELSE [book |-> AddressBook_add_record(b, added.rec),
                   out |-> Ret("Contact {name} added.")]

\* add_birthday_contact (Task_01)
add_birthday_contact(b, args) ==
    IF Len(args) # 2
    THEN [book |-> b, out |-> Ret("Provide a name and a birthday (DD.MM.YYYY).")]
    ELSE LET name == args[1]
             birthday == args[2]
             record == AddressBook_find(b, name)
         IN  IF record # None
             THEN LET r == Record_add_birthday(record, birthday)
                  IN  IF r.out.kind = "raise"
                      THEN [book |-> Store(b, name, r.rec), out |-> Ret(r.out.msg)]
                      ELSE [book |-> Store(b, name, r.rec),
                            out |-> Ret("Birthday for {name} added.")]
             ELSE [book |-> b, out |-> Ret("Contact {name} not found.")]

\* add_birthday (Task_02): the same handler under its other name
add_birthday(b, args) == add_birthday_contact(b, args)

\* change_contact (Task_01)
change_contact(b, args) ==
    IF Len(args) # 3
    THEN [book |-> b,
          out |-> Ret("Please provide the name, OLD phone number, and a NEW phone number")]
    ELSE LET name == args[1]
             record == AddressBook_find(b, name)
         IN  IF record # None
             THEN LET r == Record_edit_phone(record, args[2], args[3])
                  IN  IF r.out.kind = "raise"
                      THEN [book |-> Store(b, name, r.rec), out |-> Ret(r.out.msg)]
                      ELSE [book |-> Store(b, name, r.rec),
                            out |-> Ret("Phone number for {name} updated from {old_phone} to {new_phone}.")]
             ELSE [book |-> b, out |-> Ret("Contact {name} not found.")]

\* delete_contact (Task_01): args[0] raises IndexError on an empty list
delete_contact(b, args) ==
    IF Len(args) = 0
    THEN [book |-> b, out |-> Ret("Enter a name.")]
    ELSE AddressBook_delete(b, args[1], NoPhone)

\* remove_phone (Task_01): name, phone = args raises ValueError unless two words
remove_phone(b, args) ==
    IF Len(args) # 2
    THEN [book |-> b, out |-> Ret("Give me name and phone please.")]
    ELSE LET name == args[1]
             phone == args[2]
             record == AddressBook_find(b, name)
         IN  IF record # None
             THEN [book |-> Store(b, name, Record_remove_phone(record, phone).rec),
                   out |-> Ret("Phone {phone} removed from {name}.")]
             ELSE [book |-> b, out |-> Ret("Contact not found.")]

(***************************************************************************)
(* The state machine: book is the AddressBook, last the latest call: its   *)
(* name, its arguments, its outcome and the book it was made on.           *)
(***************************************************************************)
RefYears == FirstYear..(FirstYear + NumYears - 1)

\* <<day, month>> of the days the scan is run on
ScanDays ==
    { <<2, 6>>, <<3, 6>>, <<9, 6>>, <<10, 6>>, <<11, 6>>,
      <<27, 12>>, <<3, 1>>, <<4, 1>>,
      <<22, 2>>, <<29, 2>>, <<1, 3>> }

\* seconds into the day at which the scan is run
TimesOfDay == {0, 36000}

Todays ==
    { [y |-> yy, m |-> dm[2], d |-> dm[1], t |-> tt] :
        yy \in RefYears, dm \in ScanDays, tt \in TimesOfDay }

ValidTodays == {td \in Todays : IsDate(td.y, td.m, td.d)}

\* The arguments of a call; a field the call does not take keeps its value
\* here.  argc is the number of words of a command.
NoArgs ==
    [ name |-> "", phone |-> NoPhone, new |-> NoPhone,
      text |-> [shape |-> "", d |-> 0, m |-> 0, y |-> 0],
      today |-> [y |-> 0, m |-> 0, d |-> 0, t |-> 0],
      argc |-> 0 ]

\* The words of a command line as arguments: the name first
WordArgs(args) ==
    [NoArgs EXCEPT !.argc = Len(args),
                   !.name = IF Len(args) >= 1 THEN args[1] ELSE ""]

Call(op, args, out) == [op |-> op, args |-> args, out |-> out, pre |-> book]

Init ==
    /\ book = <<>>
    /\ last = [op |-> "init", args |-> NoArgs, out |-> Ret("None"), pre |-> <<>>]

\* Phone.validate_phone(value)
DoValidatePhone(value) ==
    /\ last' = Call("validate_phone", [NoArgs EXCEPT !.phone = value],
                    Ret(IF validate_phone(value) THEN "True" ELSE "False"))
    /\ UNCHANGED book

\* Phone(value)
DoPhone(value) ==
    /\ last' = Call("Phone", [NoArgs EXCEPT !.phone = value],
                    IF Phone(value).ok THEN Ret("Phone") ELSE Exc(Phone(value).v))
    /\ UNCHANGED book

\* book.add_record(Record(name))
DoNewRecord(name) ==
    LET n == Name(name)
    IN  /\ book' = IF n.ok THEN AddressBook_add_record(book, NewRecord(n.v))
                   ELSE book
        /\ last' = Call("add_record", [NoArgs EXCEPT !.name = name],
                        IF n.ok THEN Ret("None") ELSE Exc(n.v))

\* record.add_phone(phone) on the record stored under name
DoAddPhone(name, phone) ==
    /\ name \in Keys(book)
    /\ LET r == Record_add_phone(AddressBook_find(book, name), phone)
       IN  /\ book' = Store(book, name, r.rec)
           /\ last' = Call("add_phone",
                           [NoArgs EXCEPT !.name = name, !.phone = phone], r.out)

\* record.remove_phone(phone)
DoRemovePhone(name, phone) ==
    /\ name \in Keys(book)
    /\ LET r == Record_remove_phone(AddressBook_find(book, name), phone)
       IN  /\ book' = Store(book, name, r.rec)
           /\ last' = Call("remove_phone",
                           [NoArgs EXCEPT !.name = name, !.phone = phone], r.out)

\* record.edit_phone(old, new)
DoEditPhone(name, old, new) ==
    /\ name \in Keys(book)
    /\ LET r == Record_edit_phone(AddressBook_find(book, name), old, new)
       IN  /\ book' = Store(book, name, r.rec)
           /\ last' = Call("edit_phone",
                           [NoArgs EXCEPT !.name = name, !.phone = old, !.new = new],
                           r.out)

\* record.add_birthday(text)
DoAddBirthday(name, text) ==
    /\ name \in Keys(book)
    /\ LET r == Record_add_birthday(AddressBook_find(book, name), text)
       IN  /\ book' = Store(book, name, r.rec)
           /\ last' = Call("add_birthday",
                           [NoArgs EXCEPT !.name = name, !.text = text], r.out)

\* book.delete(name, phone)
DoDelete(name, phone) ==
    LET r == AddressBook_delete(book, name, phone)
    IN  /\ book' = r.book
        /\ last' = Call("delete",
                        [NoArgs EXCEPT !.name = name, !.phone = phone], r.out)

\* book.get_upcoming_birthdays() run at today
DoGetUpcomingBirthdays(today) ==
    /\ last' = Call("get_upcoming_birthdays", [NoArgs EXCEPT !.today = today],
                    AddressBook_get_upcoming_birthdays(book, today))
    /\ UNCHANGED book

\* the birthdays command run at today
DoBirthdays(today) ==
    /\ last' = Call("birthdays", [NoArgs EXCEPT !.today = today],
                    birthdays(book, today))
    /\ UNCHANGED book

\* the add command
CmdAdd(args) ==
    LET r == add_contact(book, args)
    IN  /\ book' = r.book
        /\ last' = Call("cmd_add",
                        [WordArgs(args) EXCEPT
                            !.phone = IF Len(args) >= 2 THEN args[2] ELSE NoPhone],
                        r.out)

\* the add_birthday / add-birthday command
CmdAddBirthday(args) ==
    LET r == add_birthday(book, args)
    IN  /\ book' = r.book
        /\ last' = Call("cmd_add_birthday",
                        [WordArgs(args) EXCEPT
                            !.text = IF Len(args) >= 2 THEN args[2] ELSE @],
                        r.out)

\* the change command
CmdChange(args) ==
    LET r == change_contact(book, args)
    IN  /\ book' = r.book
        /\ last' = Call("cmd_change",
                        [WordArgs(args) EXCEPT
                            !.phone = IF Len(args) >= 2 THEN args[2] ELSE NoPhone,
                            !.new = IF Len(args) >= 3 THEN args[3] ELSE NoPhone],
                        r.out)

\* the delete command
CmdDelete(args) ==
    LET r == delete_contact(book, args)
    IN  /\ book' = r.book
        /\ last' = Call("cmd_delete", WordArgs(args), r.out)

\* the remove_phone command
CmdRemovePhone(args) ==
    LET r == remove_phone(book, args)
    IN  /\ book' = r.book
        /\ last' = Call("cmd_remove_phone",
                        [WordArgs(args) EXCEPT
                            !.phone = IF Len(args) >= 2 THEN args[2] ELSE NoPhone],
                        r.out)

\* Calls of the Record and AddressBook methods, and the two commands that
\* remove
Next ==
    \/ \E name \in Names \cup {""} : DoNewRecord(name)
    \/ \E name \in Names, phone \in PhoneTexts : DoAddPhone(name, phone)
    \/ \E name \in Names, phone \in PhoneTexts : DoRemovePhone(name, phone)
    \/ \E name \in Names, old \in Words, new \in Words :
          DoEditPhone(name, old, new)
    \/ \E name \in Names, text \in BirthdayTexts : DoAddBirthday(name, text)
    \/ \E name \in Names, phone \in Words \cup {NoPhone} : DoDelete(name, phone)
    \/ \E name \in Names : CmdDelete(<<name>>)
    \/ CmdDelete(<<>>)
    \/ \E name \in Names, phone \in Words : CmdRemovePhone(<<name, phone>>)
    \/ \E name \in Names : CmdRemovePhone(<<name>>)

Spec == Init /\ [][Next]_vars

\* The command loop of main(), one command per step, and add_birthday
\* called on a stored record directly
NextCmd ==
    \/ \E name \in Names, phone \in Words : CmdAdd(<<name, phone>>)
    \/ \E name \in Names : CmdAdd(<<name>>)
    \/ \E name \in Names, text \in BirthdayTexts : CmdAddBirthday(<<name, text>>)
    \/ \E name \in Names : CmdAddBirthday(<<name>>)
    \/ \E name \in Names, old \in Words, new \in Words :
          CmdChange(<<name, old, new>>)
    \/ \E name \in Names : CmdChange(<<name>>)
    \/ \E name \in Names : CmdDelete(<<name>>)
    \/ \E name \in Names, phone \in Words : CmdRemovePhone(<<name, phone>>)
    \/ \E name \in Names, text \in BirthdayTexts : DoAddBirthday(name, text)

SpecCmd == Init /\ [][NextCmd]_vars

\* The validator on its own
NextPhone ==
    \/ \E value \in ValidatorTexts : DoValidatePhone(value)
    \/ \E value \in ValidatorTexts : DoPhone(value)

SpecPhone == Init /\ [][NextPhone]_vars

\* Books of records with birthdays, and the scan run on them
NextScan ==
    \/ \E name \in Names : DoNewRecord(name)
    \/ \E name \in Names, text \in ScanBirthdayTexts : DoAddBirthday(name, text)
    \/ \E name \in Names : DoDelete(name, NoPhone)
    \/ \E today \in ValidTodays : DoGetUpcomingBirthdays(today)
    \/ \E today \in ValidTodays : DoBirthdays(today)

SpecScan == Init /\ [][NextScan]_vars

(***************************************************************************)
(* Properties.                                                             *)
(***************************************************************************)
\* A text of exactly ten characters '0'-'9'
IsTenDigits(n) == Len(n) = PhoneLen /\ \A i \in 1..Len(n) : n[i] \in AsciiDigits

Has(phones, n) == \E i \in 1..Len(phones) : phones[i] = n

NoDuplicates(phones) ==
    \A i, j \in 1..Len(phones) : i # j => phones[i] # phones[j]

\* The record the latest call was made on, before and after the call
PreRec == AddressBook_find(last.pre, last.args.name)
PostRec == AddressBook_find(book, last.args.name)

\* C1: add_phone(n) with n ten digits, not in the record, and fewer than 3
\* phones stored, returning without error, leaves the old list with n appended.
C1_AddPhoneAppends ==
    (/\ last.op = "add_phone"
     /\ last.out.kind = "return"
     /\ IsTenDigits(last.args.phone)
     /\ Len(PreRec.phones) < MaxPhones
     /\ ~Has(PreRec.phones, last.args.phone))
    => PostRec.phones = Append(PreRec.phones, last.args.phone)

\* C2: edit_phone(old, new) with old not in the record, new ten digits and not
\* in the record, and fewer than 3 phones stored, leaves new in the list.
C2_EditAbsentOldAddsNew ==
    (/\ last.op = "edit_phone"
     /\ ~Has(PreRec.phones, last.args.phone)
     /\ ~Has(PreRec.phones, last.args.new)
     /\ IsTenDigits(last.args.new)
     /\ Len(PreRec.phones) < MaxPhones)
    => Has(PostRec.phones, last.args.new)

\* C3: every record of the book holds between 0 and 3 phones, no two equal.
C3_PhonesBoundedDistinct ==
    \A i \in 1..Len(book) :
        /\ Len(book[i].phones) \in 0..MaxPhones
        /\ NoDuplicates(book[i].phones)

\* C3 witness: an add_phone of a number the record already holds was refused
\* and the record still holds it.
C3_Witness ==
    /\ last.op = "add_phone"
    /\ Has(PreRec.phones, last.args.phone)
    /\ last.out = Exc("Phone number already exists.")
    /\ PostRec.phones = PreRec.phones
    /\ Len(PostRec.phones) >= 1

\* C5: an edit_phone that fails leaves the phone list as it was.
C5_EditAtomic ==
    (last.op = "edit_phone" /\ last.out.kind = "raise")
    => PostRec.phones = PreRec.phones

\* A delete of a whole entry: book.delete(name) or the delete command
C8_IsDelete ==
    \/ last.op = "delete" /\ last.args.phone = NoPhone
    \/ last.op = "cmd_delete" /\ last.args.argc = 1

\* C8: delete(name) without a phone, for a name that is no key, reports
\* "Contact not found." and leaves the book as it was; for a key it removes
\* that entry and no other.
C8_DeleteFrame ==
    C8_IsDelete =>
        IF last.args.name \notin Keys(last.pre)
        THEN /\ last.out = Ret("Contact not found.")
             /\ book = last.pre
        ELSE /\ Keys(book) = Keys(last.pre) \ {last.args.name}
             /\ book = RemoveAt(last.pre, IndexOf(last.pre, last.args.name))

\* C8 witness: delete of an absent name on a book that holds another record
\* with a phone.
C8_Witness ==
    /\ C8_IsDelete
    /\ last.args.name \notin Keys(last.pre)
    /\ last.out = Ret("Contact not found.")
    /\ \E i \in 1..Len(book) : book[i].phones # <<>>

\* A removal of one phone: book.delete(name, phone) or the remove_phone command
C9_IsRemove ==
    \/ last.op = "delete" /\ Truthy(last.args.phone)
    \/ last.op = "cmd_remove_phone" /\ last.args.argc = 2

\* C9: delete(name, phone) and the remove_phone command on an existing
\* contact report the phone removed only if it was in the record and is gone,
\* and report not-found when it was not in the record.
C9_ReportsOutcome ==
    (C9_IsRemove /\ last.args.name \in Keys(last.pre)) =>
        IF last.out.msg = "Phone {phone} removed from {name}."
        THEN Has(PreRec.phones, last.args.phone) /\ ~Has(PostRec.phones, last.args.phone)
        ELSE ~Has(PreRec.phones, last.args.phone)

\* C10: validate_phone and the Phone constructor accept a text exactly when
\* it is ten characters '0'-'9'.
C10_Accepted ==
    IF last.op = "validate_phone" THEN last.out.msg = "True"
    ELSE last.out.kind = "return"

C10_ValidatorExact ==
    last.op \in {"validate_phone", "Phone"} =>
        (C10_Accepted <=> IsTenDigits(last.args.phone))

\* A birthday text that spells a real calendar date as DD.MM.YYYY
IsRealDate(text) == text.shape = "d.m.Y" /\ IsDate(text.y, text.m, text.d)

\* An add_birthday on a stored record: the method or the command
C6_IsAddBirthday ==
    /\ \/ last.op = "add_birthday"
       \/ last.op = "cmd_add_birthday" /\ last.args.argc = 2
    /\ last.args.name \in Keys(last.pre)

\* C6: add_birthday on a record that has a birthday fails with "Birthday
\* already exists." and keeps the stored one; with a text that is no date it
\* fails and leaves the birthday unset; and no call clears or replaces the
\* birthday of a record that stays in the book.
C6_BirthdaySetOnce ==
    /\ (C6_IsAddBirthday /\ PreRec.birthday # None) =>
          /\ last.out.msg = "Birthday already exists."
          /\ last.op = "add_birthday" => last.out.kind = "raise"
          /\ PostRec.birthday = PreRec.birthday
    /\ (C6_IsAddBirthday /\ PreRec.birthday = None /\ ~IsRealDate(last.args.text)) =>
          /\ last.out.msg = "Invalid date format. Use DD.MM.YYYY"
          /\ last.op = "add_birthday" => last.out.kind = "raise"
          /\ PostRec.birthday = None
    /\ \A i \in 1..Len(last.pre) :
          (last.pre[i].birthday # None /\ last.pre[i].name \in Keys(book)) =>
              AddressBook_find(book, last.pre[i].name).birthday = last.pre[i].birthday

\* C6 witness: the command was given another real date for a record that has
\* a birthday and phones, and the stored birthday stayed.
C6_Witness ==
    /\ last.op = "cmd_add_birthday"
    /\ C6_IsAddBirthday
    /\ PreRec.birthday # None
    /\ PreRec.phones # <<>>
    /\ IsRealDate(last.args.text)
    /\ [y |-> last.args.text.y, m |-> last.args.text.m, d |-> last.args.text.d]
          # PreRec.birthday
    /\ PostRec.birthday = PreRec.birthday

\* The scan, as the method or as the command
IsScan == last.op \in {"get_upcoming_birthdays", "birthdays"}

\* A record whose birthday is 29 February
OnLeapDay(rec) ==
    IF rec.birthday = None THEN FALSE ELSE rec.birthday.m = 2 /\ rec.birthday.d = 29

\* The birthday's day and month in the reference year, a year later when
\* that day is before the reference date
Occurrence(birthday, ref) ==
    LET this == [y |-> ref.y, m |-> birthday.m, d |-> birthday.d]
    IN  IF Ordinal(this) < Ordinal(ref) THEN [this EXCEPT !.y = ref.y + 1] ELSE this

\* reference_date <= occurrence_date <= reference_date + 7 days
Due(birthday, ref) ==
    /\ Ordinal(ref) <= Ordinal(Occurrence(birthday, ref))
    /\ Ordinal(Occurrence(birthday, ref)) <= Ordinal(ref) + WindowDays

\* The names of the records with a due birthday, in the book's order
RECURSIVE DueNames(_, _, _)
DueNames(b, ref, i) ==
    IF i > Len(b) THEN <<>>
    ELSE IF b[i].birthday # None /\ Due(b[i].birthday, ref)
    THEN <<b[i].name>> \o DueNames(b, ref, i + 1)
    ELSE DueNames(b, ref, i + 1)

\* C4: on a book with no leap-day birthday the scan returns, in the book's
\* order, exactly the records whose occurrence date is from the reference
\* date to 7 days after it, whatever the time of day.
C4_WindowByDate ==
    (IsScan /\ \A i \in 1..Len(last.pre) : ~OnLeapDay(last.pre[i])) =>
        /\ last.out.kind = "return"
        /\ last.out.names = DueNames(last.pre, last.args.today, 1)

\* s without the names of the leap-day records of b
RECURSIVE OtherNames(_, _)
OtherNames(s, b) ==
    IF s = <<>> THEN <<>>
    ELSE IF OnLeapDay(AddressBook_find(b, Head(s))) THEN OtherNames(Tail(s), b)
    ELSE <<Head(s)>> \o OtherNames(Tail(s), b)

\* b without its leap-day records
RECURSIVE WithoutLeapDay(_)
WithoutLeapDay(b) ==
    IF b = <<>> THEN <<>>
    ELSE IF OnLeapDay(Head(b)) THEN WithoutLeapDay(Tail(b))
    ELSE <<Head(b)>> \o WithoutLeapDay(Tail(b))

\* C7: on a book that holds a leap-day birthday the scan raises no error and
\* reports no failure, and it lists the other records exactly as it lists
\* them on the book without the leap-day records.
C7_LeapDayScan ==
    (IsScan /\ \E i \in 1..Len(last.pre) : OnLeapDay(last.pre[i])) =>
        /\ last.out.kind = "return"
        /\ last.out.msg # "Give me name and phone please."
        /\ OtherNames(last.out.names, last.pre)
              = ScanFrom(WithoutLeapDay(last.pre), last.args.today, 1, <<>>, <<>>).v.names

====
